---- MODULE Spec2Model ----
(***************************************************************************)
(* Grid traversal library of the advent-of-code repository: Point,         *)
(* Direction, Grid<T> and GridIterator<T> (rust/src/util).                  *)
(*                                                                         *)
(* A Point is a record [x, y]; a Direction is one of nine strings; a grid  *)
(* is a record [width, height, data] with data a row-major function over   *)
(* 0 .. width*height-1; an iterator is a record of the six cursor fields   *)
(* of struct GridIterator.  A call that may panic returns a record with a  *)
(* "fatal" field.                                                          *)
(***************************************************************************)
EXTENDS Integers, Sequences, FiniteSets, TLC

(***************************************************************************)
(* Bounds of the model.                                                    *)
(***************************************************************************)
\* largest grid width / height and offset of the stepwise scan (SpecScan)
ScanMaxW == 4
ScanMaxH == 4
ScanMaxOffset == 4
\* the most calls of next a scan driver makes before it gives up
MaxCalls == 40
\* largest grid width / height and offset of the call-level machine (Spec)
MaxW == 2
MaxH == 2
MaxOffset == 2
\* how far outside the grid Spec follows line_start (next(true) on a halted
\* cursor can push it one line further with every call)
MaxOutside == 1
\* largest grid width / height and offset of a single scan call (SpecQuery)
QueryMaxW == 3
QueryMaxH == 2
QueryMaxOffset == 2
\* largest grid width / height, chunk and data length of the Grid calls (SpecGrid)
GridMaxW == 3
GridMaxH == 3
MaxChunk == 3
MaxRing == 2
MaxLen == 6
\* most lines of a parsed text and most characters of a line (SpecParse)
MaxLines == 2
MaxLineLen == 2
\* largest grid width / height of the cell reads (SpecCell)
CellMaxW == 3
CellMaxH == 2
\* most lexemes of a day03 text (SpecDay03)
MaxText == 6
\* the largest coordinate of a point in SpecPoint
MaxCoord == 2
\* the largest lab of day06 (SpecGuard)
GuardMaxW == 3
GuardMaxH == 3

(***************************************************************************)
(* point.rs                                                                *)
(***************************************************************************)
Point(px, py) == [x |-> px, y |-> py]

add(p, q) == [x |-> p.x + q.x, y |-> p.y + q.y]

sub(p, q) == [x |-> p.x - q.x, y |-> p.y - q.y]

\* add_x adding the y components as well
add_x_moves_y(p, q) == [x |-> p.x + q.x, y |-> p.y + q.y]

add_x(p, q) == [x |-> p.x + q.x, y |-> p.y]

add_y(p, q) == [x |-> p.x, y |-> p.y + q.y]

\* Point::is_diagonal
point_is_diagonal(p) == p.x # 0 /\ p.y # 0

EMPTY == Point(0, 0)
LEFT == Point(-1, 0)
UP == Point(0, -1)
RIGHT == Point(1, 0)
DOWN == Point(0, 1)
RIGHT_DOWN == Point(1, 1)
RIGHT_UP == Point(1, -1)
LEFT_DOWN == Point(-1, 1)
LEFT_UP == Point(-1, -1)

(***************************************************************************)
(* direction.rs                                                            *)
(***************************************************************************)
Direction ==
    {"Right", "Left", "Up", "Down", "RightDown", "RightUp", "LeftDown", "LeftUp", "Stop"}

ORTHOGONAL == {"Right", "Down", "Left", "Up"}

Diagonal == {"RightDown", "RightUp", "LeftDown", "LeftUp"}

Movement == ORTHOGONAL \cup Diagonal

\* to_point giving RightUp the vector of Right
to_point_flat_right_up(d) ==
    CASE d = "Right" -> RIGHT
      [] d = "Left" -> LEFT
      [] d = "Up" -> UP
      [] d = "Down" -> DOWN
      [] d = "RightDown" -> RIGHT_DOWN
      [] d = "RightUp" -> RIGHT
      [] d = "LeftDown" -> LEFT_DOWN
      [] d = "LeftUp" -> LEFT_UP
      [] OTHER -> EMPTY

to_point(d) ==
    CASE d = "Right" -> RIGHT
      [] d = "Left" -> LEFT
      [] d = "Up" -> UP
      [] d = "Down" -> DOWN
      [] d = "RightDown" -> RIGHT_DOWN
      [] d = "RightUp" -> RIGHT_UP
      [] d = "LeftDown" -> LEFT_DOWN
      [] d = "LeftUp" -> LEFT_UP
      [] OTHER -> EMPTY

is_diagonal(d) == d \in {"RightDown", "RightUp", "LeftDown", "LeftUp"}

\* an Option<Direction>
NoDirection == [some |-> FALSE]

SomeDirection(d) == [some |-> TRUE, value |-> d]

\* Direction::parse recognising the letters only
parse_direction_letters_only(c) ==
    CASE c = "R" -> SomeDirection("Right")
      [] c = "L" -> SomeDirection("Left")
      [] c = "U" -> SomeDirection("Up")
      [] c = "D" -> SomeDirection("Down")
      [] OTHER -> NoDirection

\* Direction::parse
parse_direction(c) ==
    CASE c = "R" -> SomeDirection("Right")
      [] c = "L" -> SomeDirection("Left")
      [] c = "U" -> SomeDirection("Up")
      [] c = "D" -> SomeDirection("Down")
      [] c = "^" -> SomeDirection("Up")
      [] c = "v" -> SomeDirection("Down")
      [] c = "<" -> SomeDirection("Left")
      [] c = ">" -> SomeDirection("Right")
      [] OTHER -> NoDirection

\* a turn returns [ret, fatal]
Turned(d) == [ret |-> d, fatal |-> FALSE]

TurnPanics(d) == [ret |-> d, fatal |-> TRUE]

\* turn_right turning counter-clockwise
turn_right_counter_clockwise(d) ==
    CASE d = "Right" -> Turned("Up")
      [] d = "Down" -> Turned("Right")
      [] d = "Left" -> Turned("Down")
      [] d = "Up" -> Turned("Left")
      [] d = "Stop" -> Turned("Stop")
      [] OTHER -> TurnPanics(d)

turn_right(d) ==
    CASE d = "Right" -> Turned("Down")
      [] d = "Down" -> Turned("Left")
      [] d = "Left" -> Turned("Up")
      [] d = "Up" -> Turned("Right")
      [] d = "Stop" -> Turned("Stop")
      [] OTHER -> TurnPanics(d)

\* turn_left turning clockwise
turn_left_clockwise(d) ==
    CASE d = "Right" -> Turned("Down")
      [] d = "Down" -> Turned("Left")
      [] d = "Left" -> Turned("Up")
      [] d = "Up" -> Turned("Right")
      [] d = "Stop" -> Turned("Stop")
      [] OTHER -> TurnPanics(d)

turn_left(d) ==
    CASE d = "Right" -> Turned("Up")
      [] d = "Down" -> Turned("Right")
      [] d = "Left" -> Turned("Down")
      [] d = "Up" -> Turned("Left")
      [] d = "Stop" -> Turned("Stop")
      [] OTHER -> TurnPanics(d)

(***************************************************************************)
(* grid.rs                                                                 *)
(***************************************************************************)
\* get_starting_point with the corners of RightUp and LeftDown exchanged
get_starting_point_swapped(g, d) ==
    CASE d \in {"Right", "Down", "RightDown"} -> Point(0, 0)
      [] d \in {"Left", "Up", "LeftUp"} -> Point(g.width - 1, g.height - 1)
      [] d = "RightUp" -> Point(g.width - 1, 0)
      [] d = "LeftDown" -> Point(0, g.height - 1)
      [] OTHER -> Point(0, 0)

\* Grid::new(data, width), data being len elements: the height is data.len()
GridNew(len, w, value) ==
    [width |-> w, height |-> len, data |-> [i \in 0 .. (len - 1) |-> value]]

get_starting_point(g, d) ==
    CASE d \in {"Right", "Down", "RightDown"} -> Point(0, 0)
      [] d \in {"Left", "Up", "LeftUp"} -> Point(g.width - 1, g.height - 1)
      [] d = "RightUp" -> Point(0, g.height - 1)
      [] d = "LeftDown" -> Point(g.width - 1, 0)
      [] OTHER -> Point(0, 0)

\* the wildcard arm of exced_bounds: panic!("Invalid direction")
exced_bounds_panics(d) == d \notin Movement

\* exced_bounds comparing with > where the code compares with >=
exced_bounds_off_by_one(g, p, d, chunk_size) ==
    CASE d = "Right" -> p.x + chunk_size > g.width
      [] d = "Left" -> p.x - chunk_size < 0
      [] d = "Up" -> p.y - chunk_size < 0
      [] d = "Down" -> p.y + chunk_size > g.height
      [] d = "RightUp" -> p.x + chunk_size > g.width \/ p.y - chunk_size < 0
      [] d = "RightDown" -> p.x + chunk_size > g.width \/ p.y + chunk_size > g.height
      [] d = "LeftUp" -> p.x - chunk_size < 0 \/ p.y - chunk_size < 0
      [] d = "LeftDown" -> p.x - chunk_size < 0 \/ p.y + chunk_size > g.height

\* exced_bounds with the two edge checks of a diagonal joined by AND
exced_bounds_diagonal_and(g, p, d, chunk_size) ==
    CASE d = "Right" -> p.x + chunk_size >= g.width
      [] d = "Left" -> p.x - chunk_size < 0
      [] d = "Up" -> p.y - chunk_size < 0
      [] d = "Down" -> p.y + chunk_size >= g.height
      [] d = "RightUp" -> p.x + chunk_size >= g.width /\ p.y - chunk_size < 0
      [] d = "RightDown" -> p.x + chunk_size >= g.width /\ p.y + chunk_size >= g.height
      [] d = "LeftUp" -> p.x - chunk_size < 0 /\ p.y - chunk_size < 0
      [] d = "LeftDown" -> p.x - chunk_size < 0 /\ p.y + chunk_size >= g.height

\* exced_bounds for the eight movement directions
exced_bounds(g, p, d, chunk_size) ==
    CASE d = "Right" -> p.x + chunk_size >= g.width
      [] d = "Left" -> p.x - chunk_size < 0
      [] d = "Up" -> p.y - chunk_size < 0
      [] d = "Down" -> p.y + chunk_size >= g.height
      [] d = "RightUp" -> p.x + chunk_size >= g.width \/ p.y - chunk_size < 0
      [] d = "RightDown" -> p.x + chunk_size >= g.width \/ p.y + chunk_size >= g.height
      [] d = "LeftUp" -> p.x - chunk_size < 0 \/ p.y - chunk_size < 0
      [] d = "LeftDown" -> p.x - chunk_size < 0 \/ p.y + chunk_size >= g.height

(***************************************************************************)
(* grid_iterator.rs: the cursor.  A step returns [it, ret, fatal]: the     *)
(* iterator after the call, the returned Point, and whether it panicked.   *)
(***************************************************************************)
Step(s, r) == [it |-> s, ret |-> r, fatal |-> FALSE]

Panic(s) == [it |-> s, ret |-> EMPTY, fatal |-> TRUE]

new(g, d, k) ==
    [line_start |-> get_starting_point(g, d),
     current |-> get_starting_point(g, d),
     direction |-> d,
     offset |-> k,
     can_change_axis |-> is_diagonal(d),
     have_next |-> TRUE]

\* brake that returns the empty point without halting
brake_keeps_have_next(s) == Step(s, EMPTY)

\* brake that returns the position it halted on
brake_returns_current(s) == Step([s EXCEPT !.have_next = FALSE], s.current)

brake(s) == Step([s EXCEPT !.have_next = FALSE], EMPTY)

\* handle_one_direction testing the new line with the offset instead of 1
handle_one_direction_offset_line(g, s, next_step, new_line) ==
    IF ~exced_bounds(g, s.current, next_step, s.offset + 1)
    THEN LET c == add(s.current, to_point(next_step))
         IN  Step([s EXCEPT !.current = c], c)
    ELSE IF exced_bounds(g, s.current, new_line, s.offset)
    THEN brake(s)
    ELSE LET ls == add(s.line_start, to_point(new_line))
         IN  Step([s EXCEPT !.line_start = ls, !.current = ls], ls)

handle_one_direction(g, s, next_step, new_line) ==
    IF ~exced_bounds(g, s.current, next_step, s.offset + 1)
    THEN LET c == add(s.current, to_point(next_step))
         IN  Step([s EXCEPT !.current = c], c)
    ELSE IF exced_bounds(g, s.current, new_line, 1)
    THEN brake(s)
    ELSE LET ls == add(s.line_start, to_point(new_line))
         IN  Step([s EXCEPT !.line_start = ls, !.current = ls], ls)

handle_diagonal_direction(g, s, next_step_direction, new_line_direction) ==
    IF s.can_change_axis
    THEN LET next_point == to_point(next_step_direction)
         IN  IF ~exced_bounds(g, add(next_point, s.line_start), next_step_direction, s.offset)
             THEN LET ls == add(s.line_start, next_point)
                  IN  Step([s EXCEPT !.line_start = ls, !.current = ls], ls)
             ELSE LET ls == add(get_starting_point(g, s.direction),
                                to_point(new_line_direction))
                  IN  Step([s EXCEPT !.line_start = ls, !.current = ls,
                                     !.can_change_axis = FALSE], ls)
    ELSE LET new_line_point == to_point(new_line_direction)
         IN  IF exced_bounds(g, add(new_line_point, s.line_start), new_line_direction,
                             s.offset - 1)
             THEN brake(s)
             ELSE LET ls == add(s.line_start, new_line_point)
                  IN  Step([s EXCEPT !.line_start = ls, !.current = ls], ls)

\* next stepping only while one more cell than the offset fits
next_looks_one_further(g, s, wrap_enabled) ==
    IF exced_bounds_panics(s.direction)
    THEN Panic(s)
    ELSE IF ~exced_bounds(g, s.current, s.direction, s.offset + 1)
    THEN LET c == add(s.current, to_point(s.direction))
         IN  Step([s EXCEPT !.current = c], c)
    ELSE IF ~wrap_enabled
    THEN brake(s)
    ELSE CASE s.direction = "Right" -> handle_one_direction(g, s, "Right", "Down")
           [] s.direction = "Down" -> handle_one_direction(g, s, "Down", "Right")
           [] s.direction = "Left" -> handle_one_direction(g, s, "Left", "Up")
           [] s.direction = "Up" -> handle_one_direction(g, s, "Up", "Left")
           [] s.direction = "RightDown" -> handle_diagonal_direction(g, s, "Right", "Down")
           [] s.direction = "LeftDown" -> handle_diagonal_direction(g, s, "Left", "Down")
           [] s.direction = "RightUp" -> handle_diagonal_direction(g, s, "Right", "Up")
           [] s.direction = "LeftUp" -> handle_diagonal_direction(g, s, "Left", "Up")

\* next without the early return of the bounded mode
next_always_wraps(g, s, wrap_enabled) ==
    IF exced_bounds_panics(s.direction)
    THEN Panic(s)
    ELSE IF ~exced_bounds(g, s.current, s.direction, s.offset)
    THEN LET c == add(s.current, to_point(s.direction))
         IN  Step([s EXCEPT !.current = c], c)
    ELSE CASE s.direction = "Right" -> handle_one_direction(g, s, "Right", "Down")
           [] s.direction = "Down" -> handle_one_direction(g, s, "Down", "Right")
           [] s.direction = "Left" -> handle_one_direction(g, s, "Left", "Up")
           [] s.direction = "Up" -> handle_one_direction(g, s, "Up", "Left")
           [] s.direction = "RightDown" -> handle_diagonal_direction(g, s, "Right", "Down")
           [] s.direction = "LeftDown" -> handle_diagonal_direction(g, s, "Left", "Down")
           [] s.direction = "RightUp" -> handle_diagonal_direction(g, s, "Right", "Up")
           [] s.direction = "LeftUp" -> handle_diagonal_direction(g, s, "Left", "Up")

next(g, s, wrap_enabled) ==
    IF exced_bounds_panics(s.direction)
    THEN Panic(s)
    ELSE IF ~exced_bounds(g, s.current, s.direction, s.offset)
    THEN LET c == add(s.current, to_point(s.direction))
         IN  Step([s EXCEPT !.current = c], c)
    ELSE IF ~wrap_enabled
    THEN brake(s)
    ELSE CASE s.direction = "Right" -> handle_one_direction(g, s, "Right", "Down")
           [] s.direction = "Down" -> handle_one_direction(g, s, "Down", "Right")
           [] s.direction = "Left" -> handle_one_direction(g, s, "Left", "Up")
           [] s.direction = "Up" -> handle_one_direction(g, s, "Up", "Left")
           [] s.direction = "RightDown" -> handle_diagonal_direction(g, s, "Right", "Down")
           [] s.direction = "LeftDown" -> handle_diagonal_direction(g, s, "Left", "Down")
           [] s.direction = "RightUp" -> handle_diagonal_direction(g, s, "Right", "Up")
           [] s.direction = "LeftUp" -> handle_diagonal_direction(g, s, "Left", "Up")

(***************************************************************************)
(* State: the grid, the six fields of the cursor bound to it, and what the *)
(* caller observes of the last call.                                       *)
(***************************************************************************)
VARIABLES
    width, height, data,
    line_start, current, direction, offset, can_change_axis, have_next,
    fatal,          \* the last call panicked: the program is gone
    op,             \* the name of the last call
    arg,            \* the argument of the last call, where the caller keeps it
    ret,            \* what the last call returned
    wrap_enabled,   \* the argument a scan driver passes to next
    visited,        \* the positions a scan driver was shown, in order
    calls,          \* how many times a scan driver called next
    obstacles_map,  \* day06 count_loop: the (position, direction) pairs recorded
    obstacles       \* day06 count_loop: the candidates pushed

vars ==
    <<width, height, data, line_start, current, direction, offset, can_change_axis,
      have_next, fatal, op, arg, ret, wrap_enabled, visited, calls,
                   obstacles_map, obstacles>>

grid == [width |-> width, height |-> height, data |-> data]

self ==
    [line_start |-> line_start, current |-> current, direction |-> direction,
     offset |-> offset, can_change_axis |-> can_change_axis, have_next |-> have_next]

\* the cursor fields after a call
Becomes(s) ==
    /\ line_start' = s.line_start
    /\ current' = s.current
    /\ direction' = s.direction
    /\ offset' = s.offset
    /\ can_change_axis' = s.can_change_axis
    /\ have_next' = s.have_next

\* T::default() of the element type (0 of a numeric grid)
Default == 0

\* Grid::same_size_with(value): every cell holds value
same_size_with(w, h, value) == [i \in 0 .. (w * h - 1) |-> value]

(***************************************************************************)
(* Grid<T> cell access.  Values of T are small integers, Default among     *)
(* them.                                                                   *)
(***************************************************************************)
Values == {0, 1, 2}

\* the element values of the grids of SpecQuery
QueryValues == {0, 1, 2}

None == [some |-> FALSE]

Some(v) == [some |-> TRUE, value |-> v]

\* contains that takes the column and the row just past the grid
contains_inclusive(g, p) == 0 <= p.x /\ p.x <= g.width /\ 0 <= p.y /\ p.y <= g.height

contains(g, p) == 0 <= p.x /\ p.x < g.width /\ 0 <= p.y /\ p.y < g.height

\* the cell of p in the row-major store
cell(g, p) == g.data[p.y * g.width + p.x]

\* get_value that reports every cell as present
get_value_always_some(g, p) == Some(cell(g, p))

\* a cell equal to T's default value reads as none; only for contains(g, p)
get_value(g, p) == IF cell(g, p) = Default THEN None ELSE Some(cell(g, p))

\* set_value addressing the store column by column
set_value_column_major(g, p, value) == [g.data EXCEPT ![p.x * g.height + p.y] = value]

\* only for contains(g, p)
set_value(g, p, value) == [g.data EXCEPT ![p.y * g.width + p.x] = value]

\* Option::unwrap_or_default
unwrap_or_default(o) == IF o.some THEN o.value ELSE Default

(***************************************************************************)
(* grid_iterator.rs: the scans.  A scan returns [it, ret, fatal].           *)
(***************************************************************************)
\* restore that puts back the direction only
restore_direction_only(s, original_position, original_direction) ==
    [s EXCEPT !.direction = original_direction]

restore(s, original_position, original_direction) ==
    [s EXCEPT !.current = original_position, !.direction = original_direction]

\* a scan that returned: the cursor is restored
Returned(r, s) == [r EXCEPT !.it = restore(r.it, s.current, s.direction)]

\* the loop of count skipping the cells that read as none
RECURSIVE count_loop_skips_none(_, _, _, _)
count_loop_skips_none(g, s, value, n) ==
    IF ~s.have_next
    THEN [it |-> s, ret |-> n, fatal |-> FALSE]
    ELSE IF ~contains(g, s.current)
    THEN [it |-> s, ret |-> n, fatal |-> TRUE]
    ELSE LET o == get_value(g, s.current)
             n2 == IF o.some /\ o.value = value THEN n + 1 ELSE n
             r == next(g, s, TRUE)
         IN  IF r.fatal
             THEN [it |-> r.it, ret |-> n2, fatal |-> TRUE]
             ELSE count_loop_skips_none(g, r.it, value, n2)

\* the loop of count: n is the running count
RECURSIVE count_loop(_, _, _, _)
count_loop(g, s, value, n) ==
    IF ~s.have_next
    THEN [it |-> s, ret |-> n, fatal |-> FALSE]
    ELSE IF ~contains(g, s.current)
    THEN [it |-> s, ret |-> n, fatal |-> TRUE]
    ELSE LET val == unwrap_or_default(get_value(g, s.current))
             n2 == IF val = value THEN n + 1 ELSE n
             r == next(g, s, TRUE)
         IN  IF r.fatal
             THEN [it |-> r.it, ret |-> n2, fatal |-> TRUE]
             ELSE count_loop(g, r.it, value, n2)

count(g, s, value) ==
    LET r == count_loop(g, s, value, 0)
    IN  IF r.fatal THEN r ELSE Returned(r, s)

\* day04 search_part1: do the chunk_size cells from check_point along step spell
\* search_pattern or its reverse; i counts from 0.  Reading a cell outside the
\* grid panics.  Returns [ok, fatal].
RECURSIVE search_loop(_, _, _, _, _, _, _, _)
search_loop(g, check_point, step, chunk_size, search_pattern, i, xmas, samx) ==
    IF i >= chunk_size
    THEN [ok |-> xmas \/ samx, fatal |-> FALSE]
    ELSE IF ~contains(g, check_point)
    THEN [ok |-> FALSE, fatal |-> TRUE]
    ELSE LET d == cell(g, check_point)
             xmas2 == xmas /\ d = search_pattern[i + 1]
             samx2 == samx /\ d = search_pattern[chunk_size - i]
         IN  IF ~xmas2 /\ ~samx2
             THEN [ok |-> FALSE, fatal |-> FALSE]
             ELSE search_loop(g, add(check_point, step), step, chunk_size, search_pattern,
                              i + 1, xmas2, samx2)

search_part1(g, check_point, step, chunk_size, search_pattern) ==
    search_loop(g, check_point, step, chunk_size, search_pattern, 0, TRUE, TRUE)

RECURSIVE count_with_loop(_, _, _, _, _)
count_with_loop(g, s, step, search_pattern, n) ==
    IF ~s.have_next
    THEN [it |-> s, ret |-> n, fatal |-> FALSE]
    ELSE LET is_valid == search_part1(g, s.current, step, s.offset, search_pattern)
             n2 == IF is_valid.ok THEN n + 1 ELSE n
             r == next(g, s, TRUE)
         IN  IF is_valid.fatal
             THEN [it |-> s, ret |-> n, fatal |-> TRUE]
             ELSE IF r.fatal
             THEN [it |-> r.it, ret |-> n2, fatal |-> TRUE]
             ELSE count_with_loop(g, r.it, step, search_pattern, n2)

\* count_with with f = search_part1 over search_pattern
count_with(g, s, search_pattern) ==
    LET r == count_with_loop(g, s, to_point(s.direction), search_pattern, 0)
    IN  IF r.fatal THEN r ELSE Returned(r, s)

\* day06 find: vec.iter().any(|&c| c == right)
find_predicate(vec, right) == right \in vec

\* the loop of find without its break: the last match wins
RECURSIVE find_loop_no_break(_, _, _, _)
find_loop_no_break(g, s, vec, result) ==
    IF ~s.have_next
    THEN [it |-> s, ret |-> result, fatal |-> FALSE]
    ELSE IF ~contains(g, s.current) \/ ~get_value(g, s.current).some
    THEN [it |-> s, ret |-> result, fatal |-> TRUE]
    ELSE LET val == get_value(g, s.current).value
             r == next(g, s, TRUE)
             result2 == IF find_predicate(vec, val) THEN Some(<<val, s.current>>) ELSE result
         IN  IF r.fatal
             THEN [it |-> r.it, ret |-> result2, fatal |-> TRUE]
             ELSE find_loop_no_break(g, r.it, vec, result2)

find_no_break(g, s, vec) ==
    LET r == find_loop_no_break(g, s, vec, None)
    IN  IF r.fatal THEN r ELSE [r EXCEPT !.it = [r.it EXCEPT !.current = s.current,
                                                              !.direction = s.direction]]

RECURSIVE find_loop(_, _, _)
find_loop(g, s, vec) ==
    IF ~s.have_next
    THEN [it |-> s, ret |-> None, fatal |-> FALSE]
    ELSE IF ~contains(g, s.current) \/ ~get_value(g, s.current).some
    THEN [it |-> s, ret |-> None, fatal |-> TRUE]
    ELSE LET val == get_value(g, s.current).value
             r == next(g, s, TRUE)
         IN  IF find_predicate(vec, val)
             THEN [it |-> s, ret |-> Some(<<val, s.current>>), fatal |-> FALSE]
             ELSE IF r.fatal
             THEN [it |-> r.it, ret |-> None, fatal |-> TRUE]
             ELSE find_loop(g, r.it, vec)

find(g, s, vec) ==
    LET r == find_loop(g, s, vec)
    IN  IF r.fatal THEN r ELSE Returned(r, s)

\* set_current_position accepting the column and the row just past the grid
set_current_position_off_by_one(g, s, point) ==
    IF point.x < 0 \/ point.y < 0 \/ point.x > g.width \/ point.y > g.height
    THEN [it |-> s, fatal |-> TRUE]
    ELSE [it |-> [s EXCEPT !.current = point], fatal |-> FALSE]

\* set_current_position: [it, fatal]
set_current_position(g, s, point) ==
    IF point.x < 0 \/ point.y < 0 \/ point.x >= g.width \/ point.y >= g.height
    THEN [it |-> s, fatal |-> TRUE]
    ELSE [it |-> [s EXCEPT !.current = point], fatal |-> FALSE]

\* change_direction that does not re-anchor line_start
change_direction_keeps_line_start(g, s, d) ==
    IF exced_bounds_panics(d)
    THEN [it |-> [s EXCEPT !.direction = d, !.can_change_axis = is_diagonal(d)],
          fatal |-> TRUE]
    ELSE [it |-> [s EXCEPT !.direction = d,
                           !.can_change_axis = is_diagonal(d),
                           !.have_next = ~exced_bounds(g, s.current, d, s.offset)],
          fatal |-> FALSE]

\* change_direction that leaves have_next as it was
change_direction_keeps_have_next(g, s, d) ==
    IF exced_bounds_panics(d)
    THEN [it |-> [s EXCEPT !.direction = d, !.can_change_axis = is_diagonal(d)],
          fatal |-> TRUE]
    ELSE [it |-> [s EXCEPT !.direction = d,
                           !.can_change_axis = is_diagonal(d),
                           !.line_start = s.current],
          fatal |-> FALSE]

\* change_direction: [it, fatal]
change_direction(g, s, d) ==
    IF exced_bounds_panics(d)
    THEN [it |-> [s EXCEPT !.direction = d, !.can_change_axis = is_diagonal(d)],
          fatal |-> TRUE]
    ELSE [it |-> [s EXCEPT !.direction = d,
                           !.can_change_axis = is_diagonal(d),
                           !.have_next = ~exced_bounds(g, s.current, d, s.offset),
                           !.line_start = s.current],
          fatal |-> FALSE]

\* can_move probing one cell whatever the offset
can_move_one_cell(g, s, d) ==
    IF exced_bounds_panics(d)
    THEN [ret |-> FALSE, fatal |-> TRUE]
    ELSE [ret |-> ~exced_bounds(g, s.current, d, 1), fatal |-> FALSE]

\* can_move: [ret, fatal]
can_move(g, s, d) ==
    IF exced_bounds_panics(d)
    THEN [ret |-> FALSE, fatal |-> TRUE]
    ELSE [ret |-> ~exced_bounds(g, s.current, d, s.offset), fatal |-> FALSE]

(***************************************************************************)
(* SpecScan: a caller constructs an iterator on a w x h grid and drives it *)
(* with next(wrap_enabled) for as long as have_next() is true, which is    *)
(* the loop of count, count_with and find (wrap_enabled = true) and of     *)
(* day06's process_grid (wrap_enabled = false).                            *)
(***************************************************************************)
ScanInit ==
    /\ width \in 1 .. ScanMaxW
    /\ height \in 1 .. ScanMaxH
    /\ data = same_size_with(width, height, Default)
    /\ direction \in Movement
    /\ offset \in 1 .. ScanMaxOffset
    /\ LET s == new(grid, direction, offset)
       IN  /\ line_start = s.line_start
           /\ current = s.current
           /\ can_change_axis = s.can_change_axis
           /\ have_next = s.have_next
           /\ visited = <<s.current>>
    /\ fatal = FALSE
    /\ op = "new"
    /\ arg = "none"
    /\ ret = EMPTY
    /\ wrap_enabled \in BOOLEAN
    /\ calls = 0
    /\ obstacles_map = {}
    /\ obstacles = <<>>

\* one turn of the driver's loop: have_next() was true, next(wrap) is called
ScanStep(wrap) ==
    /\ ~fatal
    /\ have_next
    /\ calls < MaxCalls
    /\ wrap_enabled = wrap
    /\ LET r == next(grid, self, wrap)
       IN  /\ Becomes(r.it)
           /\ fatal' = r.fatal
           /\ ret' = r.ret
           /\ visited' = IF r.it.have_next THEN Append(visited, r.it.current) ELSE visited
    /\ op' = (IF wrap THEN "next_true" ELSE "next_false")
    /\ calls' = calls + 1
    /\ UNCHANGED <<width, height, data, wrap_enabled, arg, obstacles_map, obstacles>>

ScanNextWrap == ScanStep(TRUE)

ScanNextBounded == ScanStep(FALSE)

ScanNext == ScanNextWrap \/ ScanNextBounded

SpecScan == ScanInit /\ [][ScanNext]_vars

\* the driver's loop is sequential code: while have_next() is true it calls next
SpecScanFair == SpecScan /\ WF_vars(ScanNext)

(***************************************************************************)
(* SpecUnguarded: a caller constructs an iterator and calls next(true) and *)
(* next(false) in any order without asking have_next() first; next itself  *)
(* does not read have_next.                                                *)
(***************************************************************************)
UnguardedInit == ScanInit /\ wrap_enabled = FALSE

UnguardedStep(wrap) ==
    /\ ~fatal
    /\ LET r == next(grid, self, wrap)
       IN  /\ Becomes(r.it)
           /\ fatal' = r.fatal
           /\ ret' = r.ret
    /\ op' = (IF wrap THEN "next_true" ELSE "next_false")
    /\ UNCHANGED <<width, height, data, wrap_enabled, arg, visited, calls,
                   obstacles_map, obstacles>>

UnguardedNextWrap == UnguardedStep(TRUE)

UnguardedNextBounded == UnguardedStep(FALSE)

UnguardedNext == UnguardedNextWrap \/ UnguardedNextBounded

SpecUnguarded == UnguardedInit /\ [][UnguardedNext]_vars

(***************************************************************************)
(* Spec: a caller owns a grid and the one cursor constructed on it, and    *)
(* calls the cursor's public operations in any order.  Init is the state   *)
(* after GridIterator::new, for every direction and offset.  op and ret    *)
(* hold a call's name and result until the caller takes them (Resume) and  *)
(* makes its next call.  A panic ends the program.                         *)
(***************************************************************************)
\* the points a caller passes to set_current_position: the cells and one point
\* beyond each edge of the grid
Points ==
    {Point(px, py) : px \in 0 .. (width - 1), py \in 0 .. (height - 1)}
        \cup {Point(-1, 0), Point(0, -1), Point(width, 0), Point(0, height)}

\* the patterns a caller matches with count_with: offset non-default values
Patterns == [1 .. offset -> Values \ {Default}]

\* the candidate lists a caller passes to find
Candidates == {{v} : v \in Values}

\* what the caller holds after a call: its name, its argument (recorded for
\* set_current_position, set_current_value, change_direction and can_move) and
\* its result
Observes(name, a, r) ==
    /\ op' = name
    /\ arg' = a
    /\ ret' = r

Init ==
    /\ width \in 1 .. MaxW
    /\ height \in 1 .. MaxH
    /\ data \in [0 .. (width * height - 1) -> Values]
    /\ direction \in Direction
    /\ offset \in 1 .. MaxOffset
    /\ LET s == new(grid, direction, offset)
       IN  /\ line_start = s.line_start
           /\ current = s.current
           /\ can_change_axis = s.can_change_axis
           /\ have_next = s.have_next
    /\ fatal = FALSE
    /\ op = "new"
    /\ arg = "none"
    /\ ret = EMPTY
    /\ wrap_enabled = FALSE
    /\ visited = <<>>
    /\ calls = 0
    /\ obstacles_map = {}
    /\ obstacles = <<>>

Untouched == UNCHANGED <<width, height, wrap_enabled, visited, calls,
                   obstacles_map, obstacles>>

\* the caller is between two calls
Idle == ~fatal /\ op = "idle"

\* the caller takes what the last call returned
Resume ==
    /\ ~fatal
    /\ op # "idle"
    /\ Observes("idle", "none", EMPTY)
    /\ UNCHANGED <<data, fatal, line_start, current, direction, offset, can_change_axis,
                   have_next>>
    /\ Untouched

\* line_start' is at most MaxOutside cells outside the grid
WithinReach ==
    /\ line_start'.x \in -MaxOutside .. (width - 1 + MaxOutside)
    /\ line_start'.y \in -MaxOutside .. (height - 1 + MaxOutside)

NextCall(wrap) ==
    /\ Idle
    /\ LET r == next(grid, self, wrap)
       IN  /\ Becomes(r.it)
           /\ fatal' = r.fatal
           /\ Observes(IF wrap THEN "next_true" ELSE "next_false", "none", r.ret)
    /\ WithinReach
    /\ UNCHANGED data
    /\ Untouched

NextWrap == NextCall(TRUE)

NextBounded == NextCall(FALSE)

SetCurrentPosition ==
    /\ Idle
    /\ \E point \in Points :
          LET r == set_current_position(grid, self, point)
          IN  /\ Becomes(r.it)
              /\ fatal' = r.fatal
              /\ Observes("set_current_position", point, EMPTY)
    /\ UNCHANGED data
    /\ Untouched

SetCurrentValue ==
    /\ Idle
    /\ \E value \in Values :
          /\ IF contains(grid, current)
             THEN data' = set_value(grid, current, value) /\ fatal' = FALSE
             ELSE data' = data /\ fatal' = TRUE
          /\ Observes("set_current_value", value, EMPTY)
    /\ UNCHANGED <<line_start, current, direction, offset, can_change_axis, have_next>>
    /\ Untouched

ChangeDirection ==
    /\ Idle
    /\ \E d \in Direction :
          LET r == change_direction(grid, self, d)
          IN  /\ Becomes(r.it)
              /\ fatal' = r.fatal
              /\ Observes("change_direction", d, EMPTY)
    /\ UNCHANGED data
    /\ Untouched

CanMove ==
    /\ Idle
    /\ \E d \in Direction :
          LET r == can_move(grid, self, d)
          IN  /\ fatal' = r.fatal
              /\ Observes("can_move", d, r.ret)
    /\ UNCHANGED <<data, line_start, current, direction, offset, can_change_axis, have_next>>
    /\ Untouched

Count ==
    /\ Idle
    /\ \E value \in Values :
          LET r == count(grid, self, value)
          IN  /\ Becomes(r.it)
              /\ fatal' = r.fatal
              /\ Observes("count", "none", r.ret)
    /\ UNCHANGED data
    /\ Untouched

CountWith ==
    /\ Idle
    /\ \E search_pattern \in Patterns :
          LET r == count_with(grid, self, search_pattern)
          IN  /\ Becomes(r.it)
              /\ fatal' = r.fatal
              /\ Observes("count_with", "none", r.ret)
    /\ UNCHANGED data
    /\ Untouched

Find ==
    /\ Idle
    /\ \E vec \in Candidates :
          LET r == find(grid, self, vec)
          IN  /\ Becomes(r.it)
              /\ fatal' = r.fatal
              /\ Observes("find", "none", r.ret)
    /\ UNCHANGED data
    /\ Untouched

Next ==
    \/ Resume
    \/ NextWrap
    \/ NextBounded
    \/ SetCurrentPosition
    \/ SetCurrentValue
    \/ ChangeDirection
    \/ CanMove
    \/ Count
    \/ CountWith
    \/ Find

Spec == Init /\ [][Next]_vars

(***************************************************************************)
(* SpecQuery: a caller builds a grid, constructs an iterator on it and     *)
(* makes one scan call (day04 part1, day06 initialize_iterator, day08).    *)
(***************************************************************************)
QueryInit ==
    /\ width \in 1 .. QueryMaxW
    /\ height \in 1 .. QueryMaxH
    /\ data \in [0 .. (width * height - 1) -> QueryValues]
    /\ direction \in Movement
    /\ offset \in 1 .. QueryMaxOffset
    /\ LET s == new(grid, direction, offset)
       IN  /\ line_start = s.line_start
           /\ current = s.current
           /\ can_change_axis = s.can_change_axis
           /\ have_next = s.have_next
    /\ fatal = FALSE
    /\ op = "new"
    /\ arg = "none"
    /\ ret = EMPTY
    /\ wrap_enabled = TRUE
    /\ visited = <<>>
    /\ calls = 0
    /\ obstacles_map = {}
    /\ obstacles = <<>>

Query(name, a, r) ==
    /\ Becomes(r.it)
    /\ fatal' = r.fatal
    /\ op' = name
    /\ arg' = a
    /\ ret' = r.ret
    /\ UNCHANGED <<width, height, data, wrap_enabled, visited, calls,
                   obstacles_map, obstacles>>

QueryCount ==
    /\ op = "new"
    /\ \E value \in QueryValues : Query("count", value, count(grid, self, value))

QueryCountWith ==
    /\ op = "new"
    /\ \E search_pattern \in [1 .. offset -> QueryValues \ {Default}] :
          Query("count_with", search_pattern, count_with(grid, self, search_pattern))

QueryFind ==
    /\ op = "new"
    /\ \E vec \in SUBSET QueryValues \ {{}} : Query("find", vec, find(grid, self, vec))

QueryNext == QueryCount \/ QueryCountWith \/ QueryFind

SpecQuery == QueryInit /\ [][QueryNext]_vars

(***************************************************************************)
(* Grid::parse(text, no delimiter).  A text is a sequence of lines, a line *)
(* a sequence of characters; from_char is the element type's conversion    *)
(* of a character, which fails for "?".  parse returns [ok, grid].         *)
(***************************************************************************)
Chars == {"A", "B", "C", "D", "?"}

from_char(c) ==
    CASE c = "A" -> Some(65)
      [] c = "B" -> Some(66)
      [] c = "C" -> Some(67)
      [] c = "D" -> Some(68)
      [] OTHER -> None

LinesOf(n) == UNION {[1 .. k -> Chars] : k \in 1 .. n}

\* the texts of k lines
Texts(k) == [1 .. k -> LinesOf(MaxLineLen)]

\* parse that builds the grid without looking at the result of the conversions
parse_skips_conversion_check(text) ==
    LET w == Len(text[1])
        h == Len(text)
    IN  IF \E i \in 1 .. h : Len(text[i]) # w
        THEN [ok |-> FALSE]
        ELSE [ok |-> TRUE,
              grid |-> [width |-> w, height |-> h,
                        data |-> [k \in 0 .. (w * h - 1) |->
                                    unwrap_or_default(
                                        from_char(text[(k \div w) + 1][(k % w) + 1]))]]]

\* parse that stores the characters column by column
parse_column_major(text) ==
    LET w == Len(text[1])
        h == Len(text)
    IN  IF \E i \in 1 .. h : Len(text[i]) # w
        THEN [ok |-> FALSE]
        ELSE IF \E i \in 1 .. h : \E j \in 1 .. w : ~from_char(text[i][j]).some
        THEN [ok |-> FALSE]
        ELSE [ok |-> TRUE,
              grid |-> [width |-> w, height |-> h,
                        data |-> [k \in 0 .. (w * h - 1) |->
                                    from_char(text[(k % h) + 1][(k \div h) + 1]).value]]]

parse(text) ==
    LET w == Len(text[1])
        h == Len(text)
    IN  IF \E i \in 1 .. h : Len(text[i]) # w
        THEN [ok |-> FALSE]
        ELSE IF \E i \in 1 .. h : \E j \in 1 .. w : ~from_char(text[i][j]).some
        THEN [ok |-> FALSE]
        ELSE [ok |-> TRUE,
              grid |-> [width |-> w, height |-> h,
                        data |-> [k \in 0 .. (w * h - 1) |->
                                    from_char(text[(k \div w) + 1][(k % w) + 1]).value]]]

(***************************************************************************)
(* SpecParse: a caller parses one text.  Before the call there is no grid. *)
(***************************************************************************)
NoCursor ==
    /\ line_start = EMPTY
    /\ current = EMPTY
    /\ direction = "Stop"
    /\ offset = 1
    /\ can_change_axis = FALSE
    /\ have_next = FALSE
    /\ wrap_enabled = FALSE
    /\ visited = <<>>
    /\ calls = 0
    /\ obstacles_map = {}
    /\ obstacles = <<>>

ParseInit ==
    /\ width = 0
    /\ height = 0
    /\ data = same_size_with(0, 0, Default)
    /\ NoCursor
    /\ fatal = FALSE
    /\ op = "new"
    /\ arg = "none"
    /\ ret = EMPTY

Parse ==
    /\ op = "new"
    /\ \E k \in 1 .. MaxLines : \E text \in Texts(k) :
          LET r == parse(text)
          IN  /\ arg' = text
              /\ ret' = r.ok
              /\ IF r.ok
                 THEN width' = r.grid.width /\ height' = r.grid.height /\ data' = r.grid.data
                 ELSE UNCHANGED <<width, height, data>>
    /\ op' = "parse"
    /\ fatal' = FALSE
    /\ UNCHANGED <<line_start, current, direction, offset, can_change_axis, have_next,
                   wrap_enabled, visited, calls,
                   obstacles_map, obstacles>>

SpecParse == ParseInit /\ [][Parse]_vars

(***************************************************************************)
(* SpecGrid: a caller holds a grid and makes one call of Grid: new,        *)
(* get_starting_point, exced_bounds.  There is no iterator; the cursor     *)
(* fields are idle.                                                        *)
(***************************************************************************)
\* the points a caller probes: the cells and MaxRing rings around the grid
ProbePoints ==
    {Point(px, py) : px \in -MaxRing .. (width - 1 + MaxRing),
                     py \in -MaxRing .. (height - 1 + MaxRing)}

GridInit ==
    /\ width \in 1 .. GridMaxW
    /\ height \in 1 .. GridMaxH
    /\ data = same_size_with(width, height, Default)
    /\ NoCursor
    /\ fatal = FALSE
    /\ op = "new"
    /\ arg = "none"
    /\ ret = EMPTY

\* a Grid call that leaves the grid as it is
GridCall(name, a, r, panics) ==
    /\ op = "new"
    /\ op' = name
    /\ arg' = a
    /\ ret' = r
    /\ fatal' = panics
    /\ UNCHANGED <<width, height, data, line_start, current, direction, offset,
                   can_change_axis, have_next, wrap_enabled, visited, calls,
                   obstacles_map, obstacles>>

GridExcedBounds ==
    \E p \in ProbePoints, d \in Direction, chunk_size \in 0 .. MaxChunk :
        IF exced_bounds_panics(d)
        THEN GridCall("exced_bounds", <<p, d, chunk_size>>, FALSE, TRUE)
        ELSE GridCall("exced_bounds", <<p, d, chunk_size>>,
                      exced_bounds(grid, p, d, chunk_size), FALSE)

GridGetStartingPoint ==
    \E d \in Direction :
        GridCall("get_starting_point", d, get_starting_point(grid, d), FALSE)

\* Grid::new(data, width) on len elements
GridBuild ==
    /\ op = "new"
    /\ \E len \in 0 .. MaxLen, w \in 1 .. GridMaxW :
          LET g == GridNew(len, w, Default)
          IN  /\ width' = g.width
              /\ height' = g.height
              /\ data' = g.data
              /\ arg' = <<len, w>>
    /\ op' = "grid_new"
    /\ ret' = EMPTY
    /\ fatal' = FALSE
    /\ UNCHANGED <<line_start, current, direction, offset, can_change_axis, have_next,
                   wrap_enabled, visited, calls,
                   obstacles_map, obstacles>>

GridContains ==
    \E p \in ProbePoints : GridCall("contains", p, contains(grid, p), FALSE)

GridNext == GridExcedBounds \/ GridGetStartingPoint \/ GridBuild \/ GridContains

SpecGrid == GridInit /\ [][GridNext]_vars

(***************************************************************************)
(* SpecCell: a caller holds a numeric grid and reads one cell, with        *)
(* get_value or, as day10's solve and dfs do, with get_value(..).unwrap(). *)
(***************************************************************************)
\* the heights of day10 that matter to dfs: 0 (the default) and 9
CellValues == {Default, 9}

GridCells == {Point(px, py) : px \in 0 .. (width - 1), py \in 0 .. (height - 1)}

CellInit ==
    /\ width \in 1 .. CellMaxW
    /\ height \in 1 .. CellMaxH
    /\ data \in [0 .. (width * height - 1) -> CellValues]
    /\ NoCursor
    /\ fatal = FALSE
    /\ op = "new"
    /\ arg = "none"
    /\ ret = EMPTY

CellGetValue ==
    \E p \in GridCells : GridCall("get_value", p, get_value(grid, p), FALSE)

\* grid.get_value(&point).unwrap(): the unwrap of none panics
CellUnwrapValue ==
    \E p \in GridCells :
        LET o == get_value(grid, p)
        IN  GridCall("unwrap", p, o, ~o.some)

CellNext == CellGetValue \/ CellUnwrapValue

SpecCell == CellInit /\ [][CellNext]_vars

(***************************************************************************)
(* SpecDirection: a walker holds a Direction and calls the functions of    *)
(* Direction on it, in any order: parse replaces the direction it holds    *)
(* when it recognises the character, a turn replaces it by the turned one. *)
(***************************************************************************)
\* the characters Direction::parse recognises and some it does not
DirectionChars ==
    {"R", "L", "U", "D", "^", "v", "<", ">", "r", "l", "u", "d", "V", "S", "#", "."}

DirectionInit ==
    /\ direction \in Direction
    /\ width = 1
    /\ height = 1
    /\ data = same_size_with(1, 1, Default)
    /\ line_start = EMPTY
    /\ current = EMPTY
    /\ offset = 1
    /\ can_change_axis = FALSE
    /\ have_next = FALSE
    /\ wrap_enabled = FALSE
    /\ visited = <<>>
    /\ calls = 0
    /\ obstacles_map = {}
    /\ obstacles = <<>>
    /\ fatal = FALSE
    /\ op = "new"
    /\ arg = "none"
    /\ ret = EMPTY

\* a call on the direction held: its name, argument, result, and the direction
\* held afterwards
DirectionCall(name, a, r, panics, d) ==
    /\ ~fatal
    /\ op' = name
    /\ arg' = a
    /\ ret' = r
    /\ fatal' = panics
    /\ direction' = d
    /\ UNCHANGED <<width, height, data, line_start, current, offset, can_change_axis,
                   have_next, wrap_enabled, visited, calls,
                   obstacles_map, obstacles>>

DirectionParse ==
    \E c \in DirectionChars :
        LET r == parse_direction(c)
        IN  DirectionCall("direction_parse", c, r, FALSE,
                          IF r.some THEN r.value ELSE direction)

DirectionTurnRight ==
    LET r == turn_right(direction)
    IN  DirectionCall("turn_right", direction, r.ret, r.fatal, r.ret)

DirectionTurnLeft ==
    LET r == turn_left(direction)
    IN  DirectionCall("turn_left", direction, r.ret, r.fatal, r.ret)

DirectionToPoint ==
    DirectionCall("to_point", direction, to_point(direction), FALSE, direction)

DirectionIsDiagonal ==
    DirectionCall("is_diagonal", direction, is_diagonal(direction), FALSE, direction)

DirectionNext ==
    \/ DirectionParse
    \/ DirectionTurnRight
    \/ DirectionTurnLeft
    \/ DirectionToPoint
    \/ DirectionIsDiagonal

SpecDirection == DirectionInit /\ [][DirectionNext]_vars

(***************************************************************************)
(* day03.rs.  A text is a sequence of lexemes: "mul(", one decimal digit,  *)
(* ",", ")", "do()", "don't()", or a piece of other text in which neither  *)
(* regex finds anything.  The regexes of part1 and part2 match literal     *)
(* text, so a match is a run of lexemes.                                   *)
(***************************************************************************)
Digits == {"0", "1", "2", "3", "4", "5", "6", "7", "8", "9"}

\* str::parse::<u32> of one digit
DigitValue(c) ==
    CASE c = "0" -> 0 [] c = "1" -> 1 [] c = "2" -> 2 [] c = "3" -> 3 [] c = "4" -> 4
      [] c = "5" -> 5 [] c = "6" -> 6 [] c = "7" -> 7 [] c = "8" -> 8 [] c = "9" -> 9

\* how many digits stand at text[i], text[i+1], ...
RECURSIVE DigitRun(_, _)
DigitRun(text, i) ==
    IF i <= Len(text) /\ text[i] \in Digits THEN 1 + DigitRun(text, i + 1) ELSE 0

\* str::parse::<u32> of the n digits from text[i]
RECURSIVE Number(_, _, _)
Number(text, i, n) ==
    IF n = 0 THEN 0 ELSE 10 * Number(text, i, n - 1) + DigitValue(text[i + n - 1])

\* the regex mul\((\d{1,3}),(\d{1,3})\) at text[i]: [found, end, product]
MulAt(text, i) ==
    LET n1 == DigitRun(text, i + 1)
        comma == i + 1 + n1
        n2 == DigitRun(text, comma + 1)
        close == comma + 1 + n2
    IN  IF /\ text[i] = "mul("
           /\ n1 \in 1 .. 3
           /\ comma <= Len(text) /\ text[comma] = ","
           /\ n2 \in 1 .. 3
           /\ close <= Len(text) /\ text[close] = ")"
        THEN [found |-> TRUE, end |-> close,
              product |-> Number(text, i + 1, n1) * Number(text, comma + 1, n2)]
        ELSE [found |-> FALSE, end |-> i, product |-> 0]

\* captures_iter(..).fold: the matches from text[i] on, left to right
RECURSIVE part1_fold(_, _, _)
part1_fold(text, i, acc) ==
    IF i > Len(text) THEN acc
    ELSE LET cap == MulAt(text, i)
         IN  IF cap.found
             THEN part1_fold(text, cap.end + 1, acc + cap.product)
             ELSE part1_fold(text, i + 1, acc)

part1(text) == part1_fold(text, 1, 0)

\* the loop of part2 over the regex (don't\(\)|do\(\)), and the tail after it
RECURSIVE filter_text(_, _, _, _)
filter_text(text, i, capture, filtered) ==
    IF i > Len(text) THEN filtered
    ELSE IF text[i] \in {"do()", "don't()"}
    THEN filter_text(text, i + 1, text[i] = "do()", filtered)
    ELSE filter_text(text, i + 1, capture,
                     IF capture THEN Append(filtered, text[i]) ELSE filtered)

part2(text) == part1(filter_text(text, 1, TRUE, <<>>))

(***************************************************************************)
(* SpecDay03: a caller holds a text and calls part1 or part2 on it.        *)
(***************************************************************************)
Lexemes == {"mul(", "2", ",", ")", "do()", "don't()"}

\* the example of day03_test.rs
EXAMPLE ==
    <<"x", "mul(", "2", ",", "4", ")", "&", "mul[", "3", ",", "7", "]", "!", "^",
      "don't()", "_", "mul(", "5", ",", "5", ")", "+", "mul(", "3", "2", ",", "6", "4",
      "]", "(", "mul(", "1", "1", ",", "8", ")", "un", "do()", "?", "mul(", "8", ",",
      "5", ")", ")">>

Day03Init ==
    /\ \/ \E n \in 0 .. MaxText : arg \in [1 .. n -> Lexemes]
       \/ arg = EXAMPLE
    /\ width = 1
    /\ height = 1
    /\ data = same_size_with(1, 1, Default)
    /\ NoCursor
    /\ fatal = FALSE
    /\ op = "new"
    /\ ret = EMPTY

Day03Call(name, r) ==
    /\ op = "new"
    /\ op' = name
    /\ ret' = r
    /\ UNCHANGED <<arg, fatal, width, height, data, line_start, current, direction, offset,
                   can_change_axis, have_next, wrap_enabled, visited, calls,
                   obstacles_map, obstacles>>

Day03Part1 == Day03Call("part1", part1(arg))

Day03Part2 == Day03Call("part2", part2(arg))

Day03Next == Day03Part1 \/ Day03Part2

SpecDay03 == Day03Init /\ [][Day03Next]_vars

(***************************************************************************)
(* SpecPoint: a caller holds a point (current) and makes one call of a     *)
(* function of Point on it.  The coordinates are those of small grids, far *)
(* from the ends of i32.                                                   *)
(***************************************************************************)
Coordinates == {Point(px, py) : px \in -MaxCoord .. MaxCoord, py \in -MaxCoord .. MaxCoord}

PointInit ==
    /\ current \in Coordinates
    /\ line_start = EMPTY
    /\ direction = "Stop"
    /\ offset = 1
    /\ can_change_axis = FALSE
    /\ have_next = FALSE
    /\ wrap_enabled = FALSE
    /\ visited = <<>>
    /\ calls = 0
    /\ obstacles_map = {}
    /\ obstacles = <<>>
    /\ width = 1
    /\ height = 1
    /\ data = same_size_with(1, 1, Default)
    /\ fatal = FALSE
    /\ op = "new"
    /\ arg = "none"
    /\ ret = EMPTY

PointCall(name, a, r) ==
    /\ op = "new"
    /\ op' = name
    /\ arg' = a
    /\ ret' = r
    /\ UNCHANGED <<fatal, width, height, data, line_start, current, direction, offset,
                   can_change_axis, have_next, wrap_enabled, visited, calls,
                   obstacles_map, obstacles>>

PointAdd == \E other \in Coordinates : PointCall("add", other, add(current, other))

PointAddX == \E other \in Coordinates : PointCall("add_x", other, add_x(current, other))

PointAddY == \E other \in Coordinates : PointCall("add_y", other, add_y(current, other))

PointSub == \E other \in Coordinates : PointCall("sub", other, sub(current, other))

PointIsDiagonal == PointCall("point_is_diagonal", "none", point_is_diagonal(current))

PointNext == PointAdd \/ PointAddX \/ PointAddY \/ PointSub \/ PointIsDiagonal

SpecPoint == PointInit /\ [][PointNext]_vars

(***************************************************************************)
(* grid.rs: the legacy GridIterator, which day04 uses.  It has the fields  *)
(* of the cursor above; its next takes no argument and always wraps.       *)
(***************************************************************************)
legacy_new(g, d, k) ==
    [line_start |-> get_starting_point(g, d),
     current |-> get_starting_point(g, d),
     direction |-> d,
     offset |-> k,
     can_change_axis |-> is_diagonal(d),
     have_next |-> TRUE]

legacy_brake(s) == Step([s EXCEPT !.have_next = FALSE], EMPTY)

\* the legacy handle_one_direction starting the new line from current
legacy_handle_one_direction_from_current(g, s, next_step, new_line) ==
    IF ~exced_bounds(g, s.current, next_step, s.offset + 1)
    THEN LET c == add(s.current, to_point(next_step))
         IN  Step([s EXCEPT !.current = c], c)
    ELSE IF exced_bounds(g, s.current, new_line, 1)
    THEN legacy_brake(s)
    ELSE LET ls == add(s.current, to_point(new_line))
         IN  Step([s EXCEPT !.line_start = ls, !.current = ls], ls)

legacy_handle_one_direction(g, s, next_step, new_line) ==
    IF ~exced_bounds(g, s.current, next_step, s.offset + 1)
    THEN LET c == add(s.current, to_point(next_step))
         IN  Step([s EXCEPT !.current = c], c)
    ELSE IF exced_bounds(g, s.current, new_line, 1)
    THEN legacy_brake(s)
    ELSE LET ls == add(s.line_start, to_point(new_line))
         IN  Step([s EXCEPT !.line_start = ls, !.current = ls], ls)

legacy_handle_diagonal_direction(g, s, next_step_direction, new_line_direction) ==
    IF s.can_change_axis
    THEN LET next_point == to_point(next_step_direction)
         IN  IF ~exced_bounds(g, add(next_point, s.line_start), next_step_direction, s.offset)
             THEN LET ls == add(s.line_start, next_point)
                  IN  Step([s EXCEPT !.line_start = ls, !.current = ls], ls)
             ELSE LET ls == add(get_starting_point(g, s.direction),
                                to_point(new_line_direction))
                  IN  Step([s EXCEPT !.line_start = ls, !.current = ls,
                                     !.can_change_axis = FALSE], ls)
    ELSE LET new_line_point == to_point(new_line_direction)
         IN  IF exced_bounds(g, add(new_line_point, s.line_start), new_line_direction,
                             s.offset - 1)
             THEN legacy_brake(s)
             ELSE LET ls == add(s.line_start, new_line_point)
                  IN  Step([s EXCEPT !.line_start = ls, !.current = ls], ls)

legacy_next(g, s) ==
    IF exced_bounds_panics(s.direction)
    THEN Panic(s)
    ELSE IF ~exced_bounds(g, s.current, s.direction, s.offset)
    THEN LET c == add(s.current, to_point(s.direction))
         IN  Step([s EXCEPT !.current = c], c)
    ELSE CASE s.direction = "Right" -> legacy_handle_one_direction(g, s, "Right", "Down")
           [] s.direction = "Down" -> legacy_handle_one_direction(g, s, "Down", "Right")
           [] s.direction = "Left" -> legacy_handle_one_direction(g, s, "Left", "Up")
           [] s.direction = "Up" -> legacy_handle_one_direction(g, s, "Up", "Left")
           [] s.direction = "RightDown" ->
                legacy_handle_diagonal_direction(g, s, "Right", "Down")
           [] s.direction = "LeftDown" ->
                legacy_handle_diagonal_direction(g, s, "Left", "Down")
           [] s.direction = "RightUp" -> legacy_handle_diagonal_direction(g, s, "Right", "Up")
           [] s.direction = "LeftUp" -> legacy_handle_diagonal_direction(g, s, "Left", "Up")

RECURSIVE legacy_count_loop(_, _, _, _, _)
legacy_count_loop(g, s, step, search_pattern, n) ==
    IF ~s.have_next
    THEN [it |-> s, ret |-> n, fatal |-> FALSE]
    ELSE LET found == search_part1(g, s.current, step, s.offset, search_pattern)
             n2 == IF found.ok THEN n + 1 ELSE n
             r == legacy_next(g, s)
         IN  IF found.fatal
             THEN [it |-> s, ret |-> n, fatal |-> TRUE]
             ELSE IF r.fatal
             THEN [it |-> r.it, ret |-> n2, fatal |-> TRUE]
             ELSE legacy_count_loop(g, r.it, step, search_pattern, n2)

\* the legacy count with f = search_part1 over search_pattern, as day04 calls it
legacy_count(g, s, search_pattern, d) ==
    legacy_count_loop(g, s, to_point(d), search_pattern, 0)

(***************************************************************************)
(* SpecLegacy: day04 constructs a legacy iterator on a grid and either     *)
(* calls count on it, or is followed through the calls of next that count  *)
(* makes for as long as have_next() is true.                               *)
(***************************************************************************)
LegacyInit ==
    /\ width \in 1 .. QueryMaxW
    /\ height \in 1 .. QueryMaxH
    /\ data \in [0 .. (width * height - 1) -> QueryValues]
    /\ direction \in Movement
    /\ offset \in 1 .. QueryMaxOffset
    /\ LET s == legacy_new(grid, direction, offset)
       IN  /\ line_start = s.line_start
           /\ current = s.current
           /\ can_change_axis = s.can_change_axis
           /\ have_next = s.have_next
    /\ fatal = FALSE
    /\ op = "new"
    /\ arg = "none"
    /\ ret = EMPTY
    /\ wrap_enabled = TRUE
    /\ visited = <<>>
    /\ calls = 0
    /\ obstacles_map = {}
    /\ obstacles = <<>>

LegacyCall(name, a, r) ==
    /\ Becomes(r.it)
    /\ fatal' = r.fatal
    /\ op' = name
    /\ arg' = a
    /\ ret' = r.ret
    /\ UNCHANGED <<width, height, data, wrap_enabled, visited, calls,
                   obstacles_map, obstacles>>

LegacyNext ==
    /\ ~fatal
    /\ op \in {"new", "legacy_next"}
    /\ have_next
    /\ LegacyCall("legacy_next", "none", legacy_next(grid, self))

LegacyCount ==
    /\ op = "new"
    /\ \E search_pattern \in [1 .. offset -> QueryValues \ {Default}] :
          LegacyCall("legacy_count", search_pattern,
                     legacy_count(grid, self, search_pattern, direction))

LegacyStep == LegacyNext \/ LegacyCount

SpecLegacy == LegacyInit /\ [][LegacyStep]_vars

(***************************************************************************)
(* day06.rs: count_loop.  The cells of the lab are chars, held as their    *)
(* code points.                                                            *)
(***************************************************************************)
FLOOR == 46
WALL == 35
GUARD == 94
SEEN == 88
OBSTACLE == 79

\* HashSet::insert that records nothing
obstacles_map_insert_forgets(map, pair) == map

\* HashSet::insert: the set afterwards
obstacles_map_insert(map, pair) == map \cup {pair}

\* iterator.get_current_value(): [value, fatal]
get_current_value(g, s) ==
    IF contains(g, s.current)
    THEN [value |-> get_value(g, s.current), fatal |-> FALSE]
    ELSE [value |-> None, fatal |-> TRUE]

\* day06's turn_right: step back, turn the direction to the right: [it, fatal]
day06_turn_right(g, s) ==
    LET new_position == sub(s.current, to_point(s.direction))
        new_direction == turn_right(s.direction)
        moved == set_current_position(g, s, new_position)
    IN  IF new_direction.fatal \/ moved.fatal
        THEN [it |-> s, fatal |-> TRUE]
        ELSE change_direction(g, moved.it, new_direction.ret)

\* the prologue of count_loop, up to the loop:
\* [it, data, returned, fatal]
count_loop_enter(g, s, current_position, starting_point) ==
    LET placed == set_current_position(g, s, current_position)
        current_value == get_current_value(g, placed.it)
    IN  IF placed.fatal \/ current_value.fatal
        THEN [it |-> s, data |-> g.data, returned |-> FALSE, fatal |-> TRUE]
        ELSE IF current_value.value \in {Some(GUARD), Some(WALL)}
        THEN [it |-> placed.it, data |-> g.data, returned |-> TRUE, fatal |-> FALSE]
        ELSE LET marked == [g EXCEPT !.data = set_value(g, placed.it.current, OBSTACLE)]
                 started == set_current_position(marked, placed.it, starting_point)
             IN  [it |-> started.it, data |-> marked.data, returned |-> FALSE,
                  fatal |-> started.fatal]

\* the match on the cell under the cursor in the loop of count_loop:
\* [it, map, pushed, fatal]; pushed is the break after obstacles.push
count_loop_match(g, s, map) ==
    LET read == get_current_value(g, s)
        pair == [position |-> s.current, direction |-> s.direction]
        stopped == [it |-> s, map |-> map, pushed |-> FALSE, fatal |-> TRUE]
    IN  IF read.fatal
        THEN stopped
        ELSE IF read.value \in {Some(GUARD), Some(FLOOR), Some(SEEN)}
        THEN [it |-> s, map |-> map, pushed |-> FALSE, fatal |-> FALSE]
        ELSE IF read.value \notin {Some(WALL), Some(OBSTACLE)}
        THEN stopped
        ELSE IF pair \in map
        THEN [it |-> s, map |-> map, pushed |-> TRUE, fatal |-> FALSE]
        ELSE LET turned == day06_turn_right(g, s)
             IN  [it |-> turned.it, map |-> obstacles_map_insert(map, pair),
                  pushed |-> FALSE, fatal |-> turned.fatal]

\* the rest of the turn of the loop after the match m: next(false), and the
\* break when have_next is false: [it, returned, fatal]
count_loop_advance(g, m) ==
    IF m.fatal \/ m.pushed
    THEN [it |-> m.it, returned |-> m.pushed, fatal |-> m.fatal]
    ELSE LET r == next(g, m.it, FALSE)
         IN  [it |-> r.it, returned |-> ~r.fatal /\ ~r.it.have_next, fatal |-> r.fatal]

(***************************************************************************)
(* SpecGuard: process_grid calls count_loop for a position of a lab whose  *)
(* guard '^' heads up.  Init is the state after GridIterator::new in       *)
(* count_loop; arg is the argument current_position.                       *)
(***************************************************************************)
Labs(w, h) ==
    {lab \in [0 .. (w * h - 1) -> {FLOOR, WALL, GUARD}] :
        Cardinality({i \in 0 .. (w * h - 1) : lab[i] = GUARD}) = 1}

\* the argument starting_point: where the guard stands in the lab
starting_point == CHOOSE p \in {Point(px, py) : px \in 0 .. (width - 1), py \in 0 .. (height - 1)} :
                      cell(grid, p) = GUARD

GuardInit ==
    /\ width \in 1 .. GuardMaxW
    /\ height \in 1 .. GuardMaxH
    /\ data \in Labs(width, height)
    /\ direction = "Up"
    /\ offset = 1
    /\ LET s == new(grid, direction, offset)
       IN  /\ line_start = s.line_start
           /\ current = s.current
           /\ can_change_axis = s.can_change_axis
           /\ have_next = s.have_next
    /\ arg \in {Point(px, py) : px \in 0 .. (width - 1), py \in 0 .. (height - 1)}
    /\ fatal = FALSE
    /\ op = "new"
    /\ ret = EMPTY
    /\ wrap_enabled = FALSE
    /\ visited = <<>>
    /\ calls = 0
    /\ obstacles_map = {}
    /\ obstacles = <<>>

GuardEnter ==
    /\ op = "new"
    /\ \E r \in {count_loop_enter(grid, self, arg, starting_point)} :
           /\ Becomes(r.it)
           /\ data' = r.data
           /\ fatal' = r.fatal
           /\ op' = (IF r.returned THEN "returned" ELSE "loop")
    /\ UNCHANGED <<width, height, arg, ret, wrap_enabled, visited, calls, obstacles_map,
                   obstacles>>

GuardTurn ==
    /\ op = "loop"
    /\ ~fatal
    /\ \E m \in {count_loop_match(grid, self, obstacles_map)} :
       \E r \in {count_loop_advance(grid, m)} :
           /\ Becomes(r.it)
           /\ obstacles_map' = m.map
           /\ obstacles' = (IF m.pushed THEN Append(obstacles, arg) ELSE obstacles)
           /\ fatal' = r.fatal
           /\ op' = (IF r.returned THEN "returned" ELSE "loop")
    /\ UNCHANGED <<width, height, data, arg, ret, wrap_enabled, visited, calls>>

GuardNext == GuardEnter \/ GuardTurn

SpecGuard == GuardInit /\ [][GuardNext]_vars

\* count_loop is sequential code: while it has not returned it runs on
SpecGuardFair == SpecGuard /\ WF_vars(GuardNext)

(***************************************************************************)
(* Vocabulary of the properties.                                           *)
(***************************************************************************)
\* p is a cell of the grid
InGrid(p) == 0 <= p.x /\ p.x < width /\ 0 <= p.y /\ p.y < height

Cells == {Point(cx, cy) : cx \in 0 .. (width - 1), cy \in 0 .. (height - 1)}

\* p + i * to_point(d)
Ahead(p, d, i) == Point(p.x + i * to_point(d).x, p.y + i * to_point(d).y)

\* the k cells p, p+d, ..., p+(k-1)d are all cells of the grid
WindowFits(p, d, k) == \A i \in 0 .. (k - 1) : InGrid(Ahead(p, d, i))

WindowStarts(d, k) == {p \in Cells : WindowFits(p, d, k)}

\* the extent of the grid along d
Extent(d) ==
    IF d \in {"Right", "Left"} THEN width
    ELSE IF d \in {"Up", "Down"} THEN height
    ELSE IF width < height THEN width ELSE height

Range(seq) == {seq[i] : i \in 1 .. Len(seq)}

NoRepeats(seq) == \A i, j \in 1 .. Len(seq) : i # j => seq[i] # seq[j]

\* the scan showed exactly the window starts, each once
ScanExact ==
    /\ NoRepeats(visited)
    /\ Range(visited) \subseteq WindowStarts(direction, offset)
    /\ ~have_next => Range(visited) = WindowStarts(direction, offset)

\* C1: an orthogonal wrap scan with 1 <= offset <= extent shows exactly the
\* positions from which an offset-cell window lies inside the grid, each once.
C1_OrthogonalScanExact ==
    (wrap_enabled /\ direction \in ORTHOGONAL /\ offset <= Extent(direction)) => ScanExact

C1_Witness ==
    /\ wrap_enabled /\ direction = "Left" /\ ~have_next
    /\ width = 3 /\ height = 3 /\ offset = 2
    /\ Len(visited) = 6

\* C2: a diagonal wrap scan with 1 <= offset <= min(width, height) shows every
\* position from which an offset-cell window lies inside the grid, each once.
C2_DiagonalScanExact ==
    (wrap_enabled /\ direction \in Diagonal /\ offset <= Extent(direction) /\ ~have_next) =>
        /\ NoRepeats(visited)
        /\ WindowStarts(direction, offset) \subseteq Range(visited)

\* C3: every position a wrap scan shows holds an offset-cell window inside the grid.
C3_WindowFits ==
    wrap_enabled => \A i \in 1 .. Len(visited) : WindowFits(visited[i], direction, offset)

\* C10: a fresh iterator, Right, offset 1, driven with next(false): it stays on
\* row 0, covers (0,0) .. (width-1,0) in order, and have_next turns false at
\* exactly the width-th call.
C10_BoundedRowWalk ==
    (~wrap_enabled /\ direction = "Right" /\ offset = 1) =>
        /\ calls <= width
        /\ have_next <=> calls < width
        /\ Len(visited) = (IF calls < width THEN calls + 1 ELSE width)
        /\ \A i \in 1 .. Len(visited) : visited[i] = Point(i - 1, 0)
        /\ have_next => current = Point(calls, 0)

C10_Witness ==
    /\ ~wrap_enabled /\ direction = "Right" /\ offset = 1
    /\ width = 3 /\ height = 3
    /\ calls = 3 /\ ~have_next
    /\ visited = <<Point(0, 0), Point(1, 0), Point(2, 0)>>

\* the last call was one of the three scans, and it returned
Scans == {"count", "count_with", "find"}

\* the positions a wrap scan shows from cursor state s on, in order
RECURSIVE ScanOrder(_, _)
ScanOrder(g, s) ==
    IF ~s.have_next THEN <<>> ELSE <<s.current>> \o ScanOrder(g, next(g, s, TRUE).it)

Min(S) == CHOOSE m \in S : \A n \in S : m <= n

\* C4: count(value) on a fresh iterator, orthogonal direction, offset 1, returns
\* the number of cells equal to value, also for the default value.
C4_CountExact ==
    (op = "count" /\ direction \in ORTHOGONAL /\ offset = 1) =>
        /\ ~fatal
        /\ ret = Cardinality({p \in Cells : cell(grid, p) = arg})

C4_Witness ==
    /\ op = "count" /\ direction = "Up" /\ offset = 1
    /\ width = 3 /\ height = 2
    /\ arg = Default /\ ret = 2

\* C5: a count, count_with or find that returns leaves the cursor's position and
\* direction as they were before the call.
C5_ScansRestoreCursor ==
    [][(op' \in Scans /\ ~fatal') => (current' = current /\ direction' = direction)]_vars

\* find returned a match it met after moving off the position it started from
C5_Witness ==
    /\ op = "find" /\ ~fatal
    /\ ret.some
    /\ ret.value[2] # current
    /\ line_start # current

\* C6: a scan that returns leaves have_next, line_start and can_change_axis (and
\* position and direction) as they were before the call.
C6_ScansRestoreIterationState ==
    [][(op' \in Scans /\ ~fatal') =>
          /\ current' = current
          /\ direction' = direction
          /\ have_next' = have_next
          /\ line_start' = line_start
          /\ can_change_axis' = can_change_axis]_vars

\* the cell of the grid at the i-th position of a scan
OrderCell(order, i) == cell(grid, order[i])

Spells(p, pattern) ==
    \/ \A i \in 1 .. offset : cell(grid, Point(p.x + i - 1, p.y)) = pattern[i]
    \/ \A i \in 1 .. offset : cell(grid, Point(p.x + i - 1, p.y)) = pattern[offset + 1 - i]

\* C8: count_with over Right with offset k and the forward-or-reverse predicate
\* returns the number of positions (x, y) with x + k <= width whose k cells to
\* the right spell the pattern or its reverse.
C8_CountWithRight ==
    (op = "count_with" /\ direction = "Right") =>
        /\ ~fatal
        /\ ret = Cardinality({p \in Cells : p.x + offset <= width /\ Spells(p, arg)})

\* C9 as claimed: next(false) from a cell p moves to p + d when p + d is a cell,
\* and otherwise halts without moving; it never changes line.
C9_BoundedStepOneCell ==
    [][(op' = "next_false" /\ InGrid(current) /\ direction \in Movement) =>
          /\ line_start' = line_start
          /\ IF InGrid(Ahead(current, direction, 1))
             THEN current' = Ahead(current, direction, 1)
             ELSE ~have_next' /\ current' = current]_vars

\* C9 as amended: next(false) from a cell p moves to p + d when p + offset * d is
\* a cell, and otherwise halts without moving; it never changes line.
C9_BoundedStepLookAhead ==
    [][(op' = "next_false" /\ InGrid(current) /\ direction \in Movement) =>
          /\ line_start' = line_start
          /\ ~fatal'
          /\ IF InGrid(Ahead(current, direction, offset))
             THEN current' = Ahead(current, direction, 1) /\ have_next' = have_next
                    /\ ret' = current'
             ELSE ~have_next' /\ current' = current /\ ret' = EMPTY]_vars

\* next(false) halted with offset 2 although the next cell is inside the grid
C9_Witness ==
    /\ op = "next_false" /\ ~fatal
    /\ offset = 2 /\ direction = "RightDown"
    /\ width = 2 /\ height = 2
    /\ current = Point(0, 0)
    /\ ~have_next

\* C11: a fresh iterator driven by next(true), or by next(false), for as long as
\* have_next is true reaches have_next = false, for every movement direction,
\* every offset and every grid, grids smaller than the offset included.
C11_ScanTerminates == <>(~have_next)

\* a diagonal wrap scan with an offset larger than the grid has halted
C11_Witness ==
    /\ wrap_enabled /\ direction = "LeftUp" /\ ~have_next
    /\ width = 2 /\ height = 3 /\ offset = 4
    /\ calls > 0 /\ calls < MaxCalls

\* the fields of the cursor other than current
CursorFrame == <<line_start, direction, offset, can_change_axis, have_next>>

\* C12: change_direction(d) for a movement direction d sets direction = d,
\* can_change_axis = d.is_diagonal(), have_next = ~exced_bounds(current, d, offset)
\* and line_start = current; current, offset and the cells are unchanged.
C12_ChangeDirection ==
    [][(op' = "change_direction" /\ arg' \in Movement) =>
          /\ ~fatal'
          /\ direction' = arg'
          /\ can_change_axis' = (arg' \in Diagonal)
          /\ have_next' = ~exced_bounds(grid, current, arg', offset)
          /\ line_start' = current
          /\ UNCHANGED <<current, offset, width, height, data>>]_vars

\* a cursor on the top right cell turned to a diagonal it can follow
C12_Witness ==
    /\ op = "change_direction" /\ ~fatal
    /\ arg = "LeftDown" /\ direction = "LeftDown"
    /\ width = 2 /\ height = 2 /\ offset = 1
    /\ current = Point(1, 0) /\ line_start = current
    /\ can_change_axis /\ have_next

\* C13 as claimed: can_move(d) is true exactly when the one cell current + d is
\* inside the grid, whatever the offset, and changes nothing.
C13_CanMoveOneCell ==
    [][(op' = "can_move" /\ arg' \in Movement /\ InGrid(current)) =>
          /\ ~fatal'
          /\ ret' = InGrid(Ahead(current, arg', 1))
          /\ UNCHANGED <<current, CursorFrame, width, height, data>>]_vars

\* C13 as amended: can_move(d) is ~exced_bounds(current, d, offset), which from a
\* cell of the grid is true exactly when current + offset * d is inside the grid;
\* it changes nothing.
C13_CanMoveLookAhead ==
    [][(op' = "can_move" /\ arg' \in Movement) =>
          /\ ~fatal'
          /\ ret' = ~exced_bounds(grid, current, arg', offset)
          /\ InGrid(current) => ret' = InGrid(Ahead(current, arg', offset))
          /\ UNCHANGED <<current, CursorFrame, width, height, data>>]_vars

\* can_move is false with offset 2 although the next cell is inside the grid
C13_Witness ==
    /\ op = "can_move" /\ ~fatal
    /\ arg = "Down" /\ offset = 2
    /\ width = 2 /\ height = 2
    /\ current = Point(0, 0)
    /\ ret = FALSE

\* C14: set_current_position(p) is fatal exactly when p is outside the grid and
\* then changes nothing; otherwise current = p and nothing else changes.
C14_SetCurrentPosition ==
    [][(op' = "set_current_position") =>
          /\ fatal' <=> ~InGrid(arg')
          /\ current' = (IF InGrid(arg') THEN arg' ELSE current)
          /\ UNCHANGED <<CursorFrame, width, height, data>>]_vars

\* the point one column past the right edge was refused
C14_Witness ==
    /\ op = "set_current_position" /\ fatal
    /\ arg = Point(width, 0)
    /\ width = 2 /\ height = 2

\* the horizontal and the vertical component of a diagonal direction
Horizontal(d) == IF d \in {"RightUp", "RightDown"} THEN "Right" ELSE "Left"

Vertical(d) == IF d \in {"RightUp", "LeftUp"} THEN "Up" ELSE "Down"

\* C15: for p inside the grid, chunk c >= 0 and a movement direction d,
\* exced_bounds(p, d, c) is true exactly when p + c * d is outside the grid; for a
\* diagonal it is the OR of the checks of its two components; Stop is fatal.
C15_ExcedBounds ==
    op = "exced_bounds" =>
        LET p == arg[1]
            d == arg[2]
            c == arg[3]
        IN  IF d \in Movement
            THEN /\ ~fatal
                 /\ InGrid(p) => (ret <=> ~InGrid(Ahead(p, d, c)))
                 /\ d \in Diagonal =>
                       (ret <=> (exced_bounds(grid, p, Horizontal(d), c)
                                   \/ exced_bounds(grid, p, Vertical(d), c)))
            ELSE fatal

\* from the centre of a 3 x 3 grid, one cell up and right is inside: not exceeded
C15_Witness ==
    /\ op = "exced_bounds" /\ ~fatal
    /\ width = 3 /\ height = 3
    /\ arg = <<Point(1, 1), "RightUp", 1>>
    /\ ret = FALSE

\* C16: get_starting_point(d) is (0,0) for Right, Down, RightDown, the bottom
\* right cell for Left, Up, LeftUp, the bottom left cell for RightUp, the top
\* right cell for LeftDown and (0,0) for Stop; it is always a cell of the grid.
C16_StartingPoint ==
    op = "get_starting_point" =>
        /\ ~fatal
        /\ arg \in {"Right", "Down", "RightDown", "Stop"} => ret = Point(0, 0)
        /\ arg \in {"Left", "Up", "LeftUp"} => ret = Point(width - 1, height - 1)
        /\ arg = "RightUp" => ret = Point(0, height - 1)
        /\ arg = "LeftDown" => ret = Point(width - 1, 0)
        /\ InGrid(ret)

C16_Witness ==
    /\ op = "get_starting_point"
    /\ width = 3 /\ height = 2
    /\ arg = "RightUp"
    /\ ret = Point(0, 1)

\* C17: a grid built by Grid::new(data, width) has height = data.len() / width
\* and data.len() = width * height.
C17_GridSize ==
    op = "grid_new" =>
        /\ height = arg[1] \div arg[2]
        /\ Cardinality(DOMAIN data) = width * height

\* every line of text has as many characters as the first
Uniform(text) == \A i \in 1 .. Len(text) : Len(text[i]) = Len(text[1])

\* every character of text converts to an element
Converts(text) ==
    \A i \in 1 .. Len(text) : \A j \in 1 .. Len(text[i]) : from_char(text[i][j]) # None

C20_Contains ==
    op = "contains" =>
        /\ ~fatal
        /\ ret <=> (0 <= arg.x /\ arg.x < width /\ 0 <= arg.y /\ arg.y < height)

\* the point just past the right edge of the bottom row is not contained
C20_Witness ==
    /\ op = "contains"
    /\ width = 3 /\ height = 2
    /\ arg = Point(3, 1)
    /\ ret = FALSE

C22_Turns ==
    /\ op = "turn_right" =>
          /\ fatal <=> arg \in Diagonal
          /\ arg = "Right" => ret = "Down"
          /\ arg = "Down" => ret = "Left"
          /\ arg = "Left" => ret = "Up"
          /\ arg = "Up" => ret = "Right"
          /\ arg = "Stop" => ret = "Stop"
    /\ op = "turn_left" =>
          /\ fatal <=> arg \in Diagonal
          /\ arg = "Right" => ret = "Up"
          /\ arg = "Up" => ret = "Left"
          /\ arg = "Left" => ret = "Down"
          /\ arg = "Down" => ret = "Right"
          /\ arg = "Stop" => ret = "Stop"

C22_Witness ==
    /\ op = "turn_right" /\ ~fatal
    /\ arg = "Up" /\ ret = "Right" /\ direction = "Right"

\* C23: Direction::parse gives Right for R and >, Left for L and <, Up for U and
\* ^, Down for D and v, none for every other character; a parsed direction is
\* never diagonal or Stop, so turning it is never fatal.
C23_ParseDirection ==
    op = "direction_parse" =>
        /\ ~fatal
        /\ arg \in {"R", ">"} => ret = SomeDirection("Right")
        /\ arg \in {"L", "<"} => ret = SomeDirection("Left")
        /\ arg \in {"U", "^"} => ret = SomeDirection("Up")
        /\ arg \in {"D", "v"} => ret = SomeDirection("Down")
        /\ arg \notin {"R", ">", "L", "<", "U", "^", "D", "v"} => ret = NoDirection
        /\ ret.some =>
              /\ ret.value \in ORTHOGONAL
              /\ ~turn_right(ret.value).fatal
              /\ ~turn_left(ret.value).fatal

C23_Witness ==
    /\ op = "direction_parse"
    /\ arg = "v" /\ ret = SomeDirection("Down") /\ direction = "Down"

\* C24: to_point maps the 8 movement directions to 8 distinct vectors with
\* components in {-1, 0, 1}, none of them zero, and Stop to the zero point;
\* d.is_diagonal() is to_point(d).is_diagonal(), true for the 4 diagonals only.
C24_UnitVectors ==
    /\ op = "to_point" =>
          /\ ret.x \in {-1, 0, 1} /\ ret.y \in {-1, 0, 1}
          /\ ret = EMPTY <=> arg = "Stop"
          /\ \A d \in Direction \ {arg} : to_point(d) # ret
    /\ op = "is_diagonal" =>
          /\ ret <=> point_is_diagonal(to_point(arg))
          /\ ret <=> arg \in {"RightDown", "RightUp", "LeftDown", "LeftUp"}

C24_Witness ==
    /\ op = "to_point"
    /\ arg = "LeftUp" /\ ret = Point(-1, -1)

\* the mul instruction at text[i], if there is one, is enabled: the nearest
\* do() / don't() before it is do(), or there is none
Enabled(text, i) ==
    LET before == {j \in 1 .. (i - 1) : text[j] \in {"do()", "don't()"}}
    IN  before = {} \/ text[CHOOSE j \in before : \A k \in before : k <= j] = "do()"

\* the sum of the products of the enabled mul instructions of text from text[i]
RECURSIVE EnabledSum(_, _)
EnabledSum(text, i) ==
    IF i > Len(text) THEN 0
    ELSE LET cap == MulAt(text, i)
         IN  IF cap.found
             THEN (IF Enabled(text, i) THEN cap.product ELSE 0) + EnabledSum(text, cap.end + 1)
             ELSE EnabledSum(text, i + 1)

\* C25: part2 is the sum of the products of the mul instructions of the original
\* text that are enabled; the example gives 48, and 161 for part1.
C25_Part2EnabledSum ==
    /\ op = "part2" => ret = EnabledSum(arg, 1)
    /\ (op = "part2" /\ arg = EXAMPLE) => ret = 48
    /\ (op = "part1" /\ arg = EXAMPLE) => ret = 161

\* the example of the tests gives the two results of the tests
C25_Example ==
    /\ (op = "part2" /\ arg = EXAMPLE) => ret = 48
    /\ (op = "part1" /\ arg = EXAMPLE) => ret = 161

\* the last call of next (not yet returned to the caller) halted the traversal:
\* it is a bounded step whose look-ahead leaves the grid, or it turned have_next
\* false, or it left the cursor on its cell and its line
Halts ==
    /\ op' \in {"next_true", "next_false"}
    /\ ~fatal'
    /\ \/ op' = "next_false" /\ InGrid(current)
             /\ ~InGrid(Ahead(current, direction, offset))
       \/ have_next /\ ~have_next'
       \/ UNCHANGED <<current, line_start, can_change_axis>>

\* C26: a call of next that halts the traversal sets have_next to false and
\* returns the zero point.
C26_HaltReturnsZero == [][Halts => (~have_next' /\ ret' = EMPTY)]_vars

\* a wrap scan was exhausted away from the origin, and a bounded step was refused
C26_Witness ==
    /\ op \in {"next_true", "next_false"} /\ ~fatal
    /\ ~have_next /\ ret = EMPTY
    /\ current = Point(1, 1) /\ line_start = Point(0, 1)
    /\ direction = "Right" /\ offset = 1
    /\ width = 2 /\ height = 2

\* C27 as claimed: once have_next is false it stays false under every operation
\* of the iterator.
C27_HaltedTerminal == [][~have_next => ~have_next']_vars

\* C27 as amended: once have_next is false it stays false under next,
\* set_current_position, set_current_value, can_move, count, count_with and find;
\* change_direction(d) for a movement direction d sets it to
\* ~exced_bounds(current, d, offset), which can be true again.
C27_HaltedUntilChangeDirection ==
    [][~have_next =>
          IF op' = "change_direction" /\ arg' \in Movement
          THEN have_next' = ~exced_bounds(grid, current, arg', offset)
          ELSE ~have_next']_vars

\* a halted cursor was moved to the far corner and is still halted
C27_Witness ==
    /\ op = "set_current_position" /\ ~fatal
    /\ ~have_next
    /\ arg = Point(1, 1) /\ current = Point(1, 1)
    /\ width = 2 /\ height = 2

\* C28: after any sequence of operations that did not panic, the current
\* position is a cell of the grid.
C28_CursorInGrid == ~fatal => InGrid(current)

\* a call of next(true) in a diagonal scan whose offset fits the grid
DiagonalStep == op' = "next_true" /\ direction \in Diagonal /\ offset <= Extent(direction)

\* line_start moved one cell along border d
Slides(d) == line_start' = add(line_start, to_point(d))

\* C29: in a diagonal wrap scan, phase 1 moves line_start one cell along the first
\* border while the diagonal starting there holds an offset-cell window, and
\* otherwise switches; the switch happens once, never back, and puts line_start
\* at the starting point plus one step along the other border; phase 2 slides
\* along that border while the diagonal fits, and halts when it does not.
C29_DiagonalAxisSwitch ==
    [][DiagonalStep =>
          /\ can_change_axis' => can_change_axis
          /\ ~have_next' => ~can_change_axis
          /\ (can_change_axis /\ line_start' # line_start) =>
                IF WindowFits(add(line_start, to_point(Horizontal(direction))),
                              direction, offset)
                THEN can_change_axis' /\ Slides(Horizontal(direction))
                ELSE /\ ~can_change_axis'
                     /\ line_start' = add(get_starting_point(grid, direction),
                                          to_point(Vertical(direction)))
          /\ (~can_change_axis /\ line_start' # line_start) =>
                /\ Slides(Vertical(direction))
                /\ WindowFits(line_start', direction, offset)
          /\ (~can_change_axis /\ ~have_next') =>
                ~WindowFits(add(line_start, to_point(Vertical(direction))),
                            direction, offset)]_vars

\* C30: once a call of next has halted the iterator, every further call of
\* next(true) or next(false) leaves current, line_start, direction,
\* can_change_axis and have_next unchanged and returns the zero point.
C30_HaltedAbsorbing ==
    [][(op \in {"next_true", "next_false"} /\ ~have_next) =>
          /\ UNCHANGED <<current, line_start, direction, can_change_axis, have_next>>
          /\ ret' = EMPTY]_vars

\* C31: next returns the zero point only when it halted the iterator; when it
\* returns with have_next still true, the returned point is the new current
\* position and differs from the zero point.
C31_ReturnIdentifiesHalt ==
    [][(op' \in {"next_true", "next_false"} /\ ~fatal') =>
          /\ ret' = EMPTY => ~have_next'
          /\ have_next' => (ret' = current' /\ ret' # EMPTY)]_vars

\* C32: next(true) on an iterator whose direction is Stop halts it without a
\* panic: have_next becomes false, the zero point is returned, current stays.
C32_StopHalts ==
    [][(op' = "next_true" /\ direction = "Stop") =>
          /\ ~fatal'
          /\ ~have_next'
          /\ ret' = EMPTY
          /\ current' = current]_vars

\* the grid after the call
grid_after == [width |-> width', height |-> height', data |-> data']

\* C33: set_current_value(v) changes only the cell at the current position, to v,
\* and no field of the cursor; next, change_direction, set_current_position,
\* can_move, count, count_with and find change no cell.
C33_GridFrame ==
    [][/\ op' = "set_current_value" =>
             /\ UNCHANGED <<current, CursorFrame, width, height>>
             /\ \A p \in Cells : p # current => cell(grid_after, p) = cell(grid, p)
             /\ ~fatal' => cell(grid_after, current) = arg'
       /\ op' \in {"next_true", "next_false", "change_direction", "set_current_position",
                   "can_move", "count", "count_with", "find"} =>
             UNCHANGED <<width, height, data>>]_vars

\* the bottom right cell of a 2 x 2 grid was written, the others hold other values
C33_Witness ==
    /\ op = "set_current_value" /\ ~fatal
    /\ arg = 2
    /\ width = 2 /\ height = 2
    /\ current = Point(1, 1)
    /\ cell(grid, Point(0, 0)) = 0 /\ cell(grid, Point(1, 0)) = 1
    /\ cell(grid, Point(0, 1)) = 1 /\ cell(grid, current) = 2

\* the cursor after the call
self_after ==
    [line_start |-> line_start', current |-> current', direction |-> direction',
     offset |-> offset', can_change_axis |-> can_change_axis', have_next |-> have_next']

\* C34: the legacy iterator is constructed in the state of the new one, each
\* legacy next() makes the step next(true) of the new one makes from the same
\* state, and the legacy count returns what count_with returns.
C34_LegacyAgrees ==
    [][/\ op = "new" => self = new(grid, direction, offset)
       /\ op' = "legacy_next" =>
             LET r == next(grid, self, TRUE)
             IN  r.it = self_after /\ r.ret = ret' /\ r.fatal = fatal'
       /\ op' = "legacy_count" =>
             LET r == count_with(grid, self, arg')
             IN  r.ret = ret' /\ r.fatal = fatal']_vars

\* the legacy count found a diagonal match of two cells
C34_Witness ==
    /\ op = "legacy_count" /\ ~fatal
    /\ direction \in Diagonal /\ offset = 2
    /\ width = 3 /\ height = 2
    /\ ret >= 1

\* the directions the turns are defined on
Turnable == ORTHOGONAL \cup {"Stop"}

\* p rotated by (x, y) -> (-y, x)
Rotated(p) == Point(0 - p.y, p.x)

\* C35: on {Right, Down, Left, Up, Stop} turn_right and turn_left are permutations,
\* each undoes the other, four turns of either give the direction turned first,
\* and for an orthogonal d to_point(turn_right(d)) is to_point(d) rotated by
\* (x, y) -> (-y, x).
C35_TurnsInverse ==
    /\ (op = "turn_right" /\ arg \in Turnable) =>
          /\ ~fatal /\ ret \in Turnable
          /\ turn_left(ret) = Turned(arg)
          /\ turn_right(turn_right(turn_right(ret).ret).ret) = Turned(arg)
          /\ \A d \in Turnable \ {arg} : turn_right(d).ret # ret
          /\ arg \in ORTHOGONAL => to_point(ret) = Rotated(to_point(arg))
    /\ (op = "turn_left" /\ arg \in Turnable) =>
          /\ ~fatal /\ ret \in Turnable
          /\ turn_right(ret) = Turned(arg)
          /\ turn_left(turn_left(turn_left(ret).ret).ret) = Turned(arg)
          /\ \A d \in Turnable \ {arg} : turn_left(d).ret # ret

\* a walker heading down turned left and heads right
C35_Witness ==
    /\ op = "turn_left" /\ ~fatal
    /\ arg = "Down" /\ ret = "Right" /\ direction = "Right"

\* C36: p.add(q).sub(q) = p, p.add(q) = q.add(p), p.add_x(q).add_y(q) = p.add(q),
\* add_x leaves y and add_y leaves x unchanged, adding Point::EMPTY is the
\* identity, and is_diagonal(p) holds iff both components of p are non-zero.
C36_PointLaws ==
    /\ op = "add" =>
          /\ sub(ret, arg) = current
          /\ ret = add(arg, current)
          /\ ret = add_y(add_x(current, arg), arg)
          /\ arg = EMPTY => ret = current
    /\ op = "add_x" => (ret.y = current.y /\ ret.x = current.x + arg.x)
    /\ op = "add_y" => (ret.x = current.x /\ ret.y = current.y + arg.y)
    /\ op = "sub" => add(ret, arg) = current
    /\ op = "point_is_diagonal" => (ret <=> (current.x # 0 /\ current.y # 0))

\* add_x moved a point along x only
C36_Witness ==
    /\ op = "add_x"
    /\ current = Point(1, -2) /\ arg = Point(1, 2)
    /\ ret = Point(2, -2)

\* a call of next(true) in an orthogonal scan
OrthogonalStep == op' = "next_true" /\ direction \in ORTHOGONAL

\* the call moved the cursor one cell along its line
InLine == current' = Ahead(current, direction, 1) /\ line_start' = line_start

\* C38 as claimed: an orthogonal wrap scan steps within the line exactly while
\* the cell offset + 1 steps ahead is inside the grid, which is the test of
\* the in-line branch of handle_one_direction.
C38_InLineWhileOneFurtherFits ==
    [][OrthogonalStep => (InLine <=> InGrid(Ahead(current, direction, offset + 1)))]_vars

\* C38 as amended: an orthogonal wrap scan steps within the line exactly while
\* the cell offset steps ahead is inside the grid, which is the test of next;
\* when that test fails and handle_one_direction runs, the cell offset + 1
\* steps ahead is outside the grid as well, so its in-line branch is never
\* taken: it starts a new line or halts.
C38_InLineWhileOffsetFits ==
    [][OrthogonalStep =>
          /\ InLine <=> InGrid(Ahead(current, direction, offset))
          /\ ~InGrid(Ahead(current, direction, offset)) =>
                /\ exced_bounds(grid, current, direction, offset + 1)
                /\ \/ ~have_next' /\ UNCHANGED <<current, line_start>>
                   \/ /\ have_next'
                      /\ line_start' # line_start
                      /\ current' = line_start']_vars

\* the last step along a row of three cells was made with one cell ahead only
C38_Witness ==
    /\ op = "next_true" /\ direction = "Right" /\ have_next
    /\ width = 3 /\ height = 2 /\ offset = 1
    /\ line_start = Point(0, 0) /\ current = Point(2, 0)

\* count_loop has returned without a panic, in one of its three ways: at once,
\* because the candidate cell holds the guard or a wall; because the walk left
\* the lab; or because it met an obstacle in a position and direction already
\* recorded, and then the candidate was pushed, once
CountLoopReturned ==
    /\ op = "returned"
    /\ ~fatal
    /\ \/ /\ obstacles = <<>> /\ obstacles_map = {}
          /\ current = arg /\ cell(grid, arg) \in {GUARD, WALL}
       \/ obstacles = <<>> /\ ~have_next /\ cell(grid, arg) = OBSTACLE
       \/ /\ obstacles = <<arg>> /\ have_next /\ cell(grid, arg) = OBSTACLE
          /\ InGrid(current)
          /\ cell(grid, current) \in {WALL, OBSTACLE}
          /\ [position |-> current, direction |-> direction] \in obstacles_map

\* C37: count_loop terminates on every lab: the walk leaves the lab, or meets an
\* obstacle in a recorded position and direction, pushes the candidate once
\* and stops; turn_right never puts the cursor outside the lab (no panic).
C37_CountLoopTerminates == <>CountLoopReturned

\* a guard walled in on three sides and closed in by the candidate went round once
C37_Witness ==
    /\ op = "returned" /\ ~fatal
    /\ width = 3 /\ height = 3
    /\ arg = Point(1, 2) /\ obstacles = <<arg>>
    /\ Cardinality(obstacles_map) = 4
    /\ current = Point(1, 0) /\ direction = "Up"

====
